---- MODULE Spec2Model ----
(***************************************************************************)
(* Reload Pro firmware, user-interface core (firmware/Reload Pro.cydsn/    *)
(* ui.c and config.h): the UI trampoline and its screens, the two input    *)
(* ISRs feeding the bounded UI queue, and the readout formatter.           *)
(*                                                                         *)
(* Five specifications share the module:                                   *)
(*   Spec     the UI task (vTaskUI and every screen) consuming a queue     *)
(*            that producers fill; tick time is abstracted, so next_event  *)
(*            may always synthesize an ADC_READING;                        *)
(*   SpecQuad the quadrature ISR filling the queue;                        *)
(*   SpecButton the button ISR against the wrapping tick counter;          *)
(*   SpecFmt  format_number and print_resistance applied to inputs drawn   *)
(*            from bounded sets;                                           *)
(*   SpecTick next_event against the scheduler's tick counter.             *)
(***************************************************************************)
EXTENDS Integers, Sequences, FiniteSets, TLC

VARIABLES
    pc,               \* position of the UI task: the screen loop it is blocked in
    state,            \* vTaskUI: current state descriptor
    main_state,       \* vTaskUI: remembered home descriptor
    new_state,        \* vTaskUI: descriptor returned by the last handler
    ui_queue,         \* the FreeRTOS queue of ui_event, capacity 2
    selected,         \* menu(): selected index
    display,          \* display_config(): descriptor returned by the first menu
    contrast,         \* set_contrast(): working contrast
    new_settings,     \* calibrate(): scratch settings record
    settings,         \* persisted settings record (EEPROM)
    display_settings, \* persisted display_settings.cc.readouts
    current_setpoint, \* state.current_setpoint
    current_range,    \* state.current_range
    output_mode,      \* output mode held by the control facade
    opamp_trim_reg,   \* Opamp OA_OFFSET_TRIM register
    last_main,        \* history: last adopted descriptor with is_main_state set
    cal_image,        \* history: persisted settings at wizard entry
    cal_writes,       \* history: persisted writes made by the running wizard
    null_call,        \* history: a redraw has invoked a NULL entry of readout_functions
    ret_event,        \* history: the event consumed by a handler that has just returned
    ret_mode,         \* history: the output mode when that event was consumed
    sent,             \* number of events producers have offered to the queue
    last_levels,      \* quadrature_event_isr: static last_levels
    count,            \* quadrature_event_isr: static count
    button_when,      \* button_press_isr: static event.when
    now,              \* tick counter (xTaskGetTickCount)
    quad_hist,        \* history: the last quadrature ISR invocations, newest last
    button_hist,      \* history: the last two button ISR invocations, newest last
    since_mod,        \* history: ticks since the last accepted press (or boot), mod the counter
    since_wrapped,    \* history: no press was accepted within the counter's last period
    fmt_num,          \* format_number: argument num
    fmt_suffix,       \* format_number: argument suffix
    fmt_out,          \* format_number: contents of out after the call
    res_voltage,      \* print_resistance: value of get_voltage()
    res_current,      \* print_resistance: value of get_current_usage()
    res_out,          \* print_resistance: contents of buf after the call
    res_fault,        \* print_resistance: the call divided by zero
    last_tick,        \* next_event: static last_tick
    ne_pc,            \* position of the screen: "run" outside next_event, "wait" inside xQueueReceive
    ne_now,           \* next_event: local now of the call in progress
    ne_timeout,       \* ticks left of the xQueueReceive timeout of the call in progress
    ne_waited,        \* history: ticks the call in progress has taken so far
    ne_handled,       \* history: ticks the screen has spent since next_event last returned
    since_adc,        \* history: ticks since next_event last synthesized an ADC_READING
    tick_age,         \* history: ticks since the instant last_tick names
    ne_result         \* history: how the last call of next_event returned

vars == <<pc, state, main_state, new_state, ui_queue, ret_event, ret_mode, selected,
          display, contrast, new_settings, settings, display_settings, current_setpoint,
          current_range, output_mode, opamp_trim_reg, last_main, cal_image,
          cal_writes, null_call, sent, last_levels, count, button_when, now, quad_hist,
          button_hist, since_mod, since_wrapped,
          fmt_num, fmt_suffix, fmt_out, res_voltage, res_current, res_out, res_fault,
          last_tick, ne_pc, ne_now, ne_timeout, ne_waited, ne_handled,
          since_adc, tick_age, ne_result>>

uiVars == <<pc, state, main_state, new_state, ret_event, ret_mode, selected, display,
            contrast, new_settings, settings, display_settings,
            current_setpoint, current_range, output_mode, opamp_trim_reg,
            last_main, cal_image, cal_writes, null_call>>

isrVars == <<last_levels, count, button_when, now, quad_hist, button_hist,
             since_mod, since_wrapped>>

fmtVars == <<fmt_num, fmt_suffix, fmt_out, res_voltage, res_current, res_out,
             res_fault>>

tickVars == <<last_tick, ne_pc, ne_now, ne_timeout, ne_waited, ne_handled,
              since_adc, tick_age, ne_result>>

-----------------------------------------------------------------------------
(* Bounds of the model *)

\* events producers may offer to the queue in one run of Spec
MaxEvents == 6

\* modulus of the wrapping tick counter (portTickType), scaled down
TickModulus == 8

\* configTICK_RATE_HZ, scaled down; the debounce window is a tenth of it
TICK_RATE_HZ == 30

-----------------------------------------------------------------------------
(* config.h *)

CURRENT_LOWRANGE_STEP == 5000
CURRENT_FULLRANGE_STEP == 20000
CURRENT_LOWRANGE_MAX == 250000
CURRENT_FULLRANGE_MAX == 6000000

DEFAULT_DAC_HIGH_GAIN == 21157
DEFAULT_DAC_LOW_GAIN == 186
DEFAULT_OPAMP_OFFSET_TRIM == 36
DEFAULT_DAC_OFFSET == 0
DEFAULT_ADC_CURRENT_OFFSET == -35
DEFAULT_ADC_CURRENT_GAIN == 599
DEFAULT_ADC_VOLTAGE_OFFSET == 0
DEFAULT_ADC_VOLTAGE_GAIN == 2008

READOUT_NONE == 0
READOUT_CURRENT_SETPOINT == 1
READOUT_CURRENT_USAGE == 2
READOUT_VOLTAGE == 3
READOUT_POWER == 4
READOUT_RESISTANCE == 5

\* output_mode enumeration
OutputModes == {"OUTPUT_MODE_OFF", "OUTPUT_MODE_ON", "OUTPUT_MODE_FEEDBACK"}

-----------------------------------------------------------------------------
(* C integer arithmetic *)

\* C division truncates toward zero
CDiv(a, b) ==
    IF (a >= 0) = (b > 0) \/ a = 0
    THEN (IF a >= 0 THEN a ELSE -a) \div (IF b >= 0 THEN b ELSE -b)
    ELSE -((IF a >= 0 THEN a ELSE -a) \div (IF b >= 0 THEN b ELSE -b))

\* C remainder has the sign of the dividend
CMod(a, b) == a - b * CDiv(a, b)

Abs(a) == IF a >= 0 THEN a ELSE -a

-----------------------------------------------------------------------------
(* State descriptors and menus (ui.c 35-114) *)

\* a const void* argument: a named object or NULL, plus an integer offset,
\* so that (void* )n is NullPtr displaced by n
Ptr(base, off) == [base |-> base, off |-> off]
NullPtr == Ptr("NULL", 0)

state_func(func, arg, is_main_state) ==
    [func |-> func, arg |-> arg, is_main_state |-> is_main_state]

STATE_MAIN == state_func("NULL", NullPtr, 0)
STATE_CC_LOAD == state_func("cc_load", NullPtr, 1)
STATE_CALIBRATE == state_func("calibrate", NullPtr, 0)
STATE_CONFIGURE_CC_DISPLAY ==
    state_func("display_config", Ptr("display_settings.cc", 0), 0)
STATE_SET_CONTRAST == state_func("set_contrast", NullPtr, 0)
STATE_OVERTEMP == state_func("overtemp", NullPtr, 0)
STATE_SPLASHSCREEN == state_func("splashscreen", NullPtr, 0)
STATE_MAIN_MENU == state_func("menu", Ptr("main_menu", 0), 0)

menuitem(caption, st) == [caption |-> caption, new_state |-> st]

\* the terminating entry of every items[] array
SentinelItem == menuitem("NULL", state_func("NULL", NullPtr, 0))

set_readout_menu ==
    [title |-> "Choose value",
     items |-> << menuitem("Set Current",
                           state_func("NULL", Ptr("NULL", READOUT_CURRENT_SETPOINT), 0)),
                  menuitem("Act. Current",
                           state_func("NULL", Ptr("NULL", READOUT_CURRENT_USAGE), 0)),
                  menuitem("Voltage",
                           state_func("NULL", Ptr("NULL", READOUT_VOLTAGE), 0)),
                  menuitem("Power",
                           state_func("NULL", Ptr("NULL", READOUT_POWER), 0)),
                  menuitem("Resistance",
                           state_func("NULL", Ptr("NULL", READOUT_RESISTANCE), 0)),
                  menuitem("None",
                           state_func("NULL", Ptr("NULL", READOUT_NONE), 0)),
                  SentinelItem >>]

choose_readout_menu ==
    [title |-> "Readouts",
     items |-> << menuitem("Main display", state_func("NULL", Ptr("NULL", 0), 0)),
                  menuitem("Left display", state_func("NULL", Ptr("NULL", 1), 0)),
                  menuitem("Right display", state_func("NULL", Ptr("NULL", 2), 0)),
                  SentinelItem >>]

main_menu ==
    [title |-> "NULL",
     items |-> << menuitem("C/C Load", STATE_CC_LOAD),
                  menuitem("Readouts", STATE_CONFIGURE_CC_DISPLAY),
                  menuitem("Contrast", STATE_SET_CONTRAST),
                  menuitem("Calibrate", STATE_CALIBRATE),
                  SentinelItem >>]

\* items[i] with the C index i (0-based)
ItemAt(m, i) == m.items[i + 1]

\* number of entries before the sentinel
NumItems(m) == Len(m.items) - 1

\* the menudata a menu() argument points to
MenuOf(arg) ==
    CASE arg.base = "main_menu" -> main_menu
      [] arg.base = "choose_readout_menu" -> choose_readout_menu
      [] arg.base = "set_readout_menu" -> set_readout_menu

-----------------------------------------------------------------------------
(* UI events *)

ui_event(type, when, int_arg) == [type |-> type, when |-> when, int_arg |-> int_arg]

NoEvent == ui_event("UI_EVENT_NONE", 0, 0)

\* detent counts offered to the queue; with these every product and sum of
\* the screens stays far inside the 32-bit int range, so none wraps
Deltas == {-100, -1, 1, 100}

\* button identifiers a BUTTONPRESS event may carry
Buttons == {1, 2}

\* what QuadButton_Read reports in the ISR: the encoder's push button
PressedButtons == {1}

InputEvents ==
    {ui_event("UI_EVENT_UPDOWN", 0, d) : d \in Deltas}
        \cup {ui_event("UI_EVENT_BUTTONPRESS", 0, b) : b \in Buttons}
        \cup {ui_event("UI_EVENT_OVERTEMP", 0, 0)}

\* xQueueCreate(2, ...)
QueueLength == 2

\* xQueueSendToBackFromISR: append when there is room, drop otherwise
QueueSend(q, e) == IF Len(q) < QueueLength THEN Append(q, e) ELSE q

-----------------------------------------------------------------------------
(* Control facade and persisted records *)

\* settings_t with the DEFAULT_* values of config.h
DefaultSettings ==
    [dac_low_gain |-> DEFAULT_DAC_LOW_GAIN,
     dac_high_gain |-> DEFAULT_DAC_HIGH_GAIN,
     dac_low_offset |-> DEFAULT_DAC_OFFSET,
     dac_high_offset |-> DEFAULT_DAC_OFFSET,
     opamp_offset_trim |-> DEFAULT_OPAMP_OFFSET_TRIM,
     adc_current_offset |-> DEFAULT_ADC_CURRENT_OFFSET,
     adc_current_gain |-> DEFAULT_ADC_CURRENT_GAIN,
     adc_voltage_offset |-> DEFAULT_ADC_VOLTAGE_OFFSET,
     adc_voltage_gain |-> DEFAULT_ADC_VOLTAGE_GAIN,
     backlight_brightness |-> 63,
     lcd_contrast |-> 40]

\* display_settings.cc.readouts as initialised in ui.c
DefaultReadouts ==
    <<READOUT_CURRENT_SETPOINT, READOUT_CURRENT_USAGE, READOUT_VOLTAGE>>

\* set_current: clamp to [0, CURRENT_FULLRANGE_MAX] and select the range
set_current(setpoint) ==
    LET clamped == IF setpoint < 0 THEN 0
                   ELSE IF setpoint > CURRENT_FULLRANGE_MAX
                        THEN CURRENT_FULLRANGE_MAX
                        ELSE setpoint
    IN  [current_setpoint |-> clamped,
         current_range |-> IF clamped <= CURRENT_LOWRANGE_MAX THEN 0 ELSE 1]

\* a plausible slip: the setpoint is updated in place, past the facade
adjust_current_setpoint_unclamped(delta) ==
    LET raw == IF current_range = 0
               THEN current_setpoint + delta * CURRENT_LOWRANGE_STEP
               ELSE current_setpoint + delta * CURRENT_FULLRANGE_STEP
    IN  [current_setpoint |-> raw,
         current_range |-> IF raw <= CURRENT_LOWRANGE_MAX THEN 0 ELSE 1]

\* a plausible slip: the two step sizes are swapped
adjust_current_setpoint_swapped(delta) ==
    IF current_range = 0
    THEN set_current(current_setpoint + delta * CURRENT_FULLRANGE_STEP)
    ELSE set_current(current_setpoint + delta * CURRENT_LOWRANGE_STEP)

\* adjust_current_setpoint: the live state after the call
adjust_current_setpoint(delta) ==
    IF current_range = 0
    THEN set_current(current_setpoint + delta * CURRENT_LOWRANGE_STEP)
    ELSE set_current(current_setpoint + delta * CURRENT_FULLRANGE_STEP)

\* setpoints the live state may hold when the UI task starts
InitSetpoints == {0, 248000}

\* raw ADC readings the analog front-end may return during calibration
RawVoltages == {0, 7}
RawCurrents == {-3}

\* first trim index at which the residual is <= 0 (32: it never is)
Crossings == {0, 1, 17, 32}

-----------------------------------------------------------------------------
(* next_event (ui.c 190-199), tick time abstracted *)

\* the outcomes of one call: the head of the queue is received, or an
\* ADC_READING is synthesized (the queue stayed empty for the timeout, or
\* the tick was overdue and the queue was not read).  A screen reads its
\* local ui_event only after next_event has written it and reads int_arg
\* only under a type the queue delivered, so the local is bound per call
\* and is no part of the state.
next_event ==
    {[event |-> ui_event("UI_EVENT_ADC_READING", 0, 0), queue |-> ui_queue]}
        \cup (IF ui_queue = <<>> THEN {}
              ELSE {[event |-> Head(ui_queue), queue |-> Tail(ui_queue)]})

\* the loop condition of the screens that wait for the primary button
IsPress1(e) == e.type = "UI_EVENT_BUTTONPRESS" /\ e.int_arg = 1

-----------------------------------------------------------------------------
(* The UI task: vTaskUI and the screens *)

\* a record the scratch settings hold while no wizard runs
NoSettings == [s \in DOMAIN DefaultSettings |-> 0]

\* the handler returns descriptor s to the trampoline; its locals die
Return(s, e) ==
    /\ new_state' = s
    /\ pc' = "adopt"
    /\ ret_event' = e
    /\ ret_mode' = output_mode
    /\ selected' = 0
    /\ display' = STATE_MAIN
    /\ contrast' = 0
    /\ new_settings' = NoSettings

\* for(i = 0; i < n; i++) { if(items[selected + 1].caption == NULL) break; selected++; }
RECURSIVE MenuWalk(_, _, _)
MenuWalk(m, sel, n) ==
    IF n <= 0 \/ ItemAt(m, sel + 1).caption = "NULL"
    THEN sel
    ELSE MenuWalk(m, sel + 1, n - 1)

\* a plausible slip: the walk adds the whole delta without looking for the end
menu_switch_unbounded(m, sel, ev) ==
    IF ev.type = "UI_EVENT_UPDOWN"
    THEN IF ev.int_arg < 0
         THEN IF sel + ev.int_arg >= 0 THEN sel + ev.int_arg ELSE 0
         ELSE sel + ev.int_arg
    ELSE sel

\* the switch of menu(): the selected index after event ev
menu_switch(m, sel, ev) ==
    IF ev.type = "UI_EVENT_UPDOWN"
    THEN IF ev.int_arg < 0
         THEN IF sel + ev.int_arg >= 0 THEN sel + ev.int_arg ELSE 0
         ELSE MenuWalk(m, sel, ev.int_arg)
    ELSE sel

\* one iteration of the loop of menu() on menudata m: whether menu() returns,
\* the descriptor it returns and the selected index
menu_body(m, sel, ev) ==
    IF ev.type = "UI_EVENT_OVERTEMP"
    THEN [done |-> TRUE, result |-> STATE_OVERTEMP, selected |-> sel]
    ELSE LET s2 == menu_switch(m, sel, ev)
         IN  IF IsPress1(ev)
             THEN [done |-> TRUE, result |-> ItemAt(m, s2).new_state, selected |-> s2]
             ELSE [done |-> FALSE, result |-> STATE_MAIN, selected |-> s2]

\* prologues: the code of a handler up to its first call of next_event
cc_load_enter ==
    /\ pc' = "cc_load"
    /\ UNCHANGED <<selected, display, contrast, new_settings, settings,
                   current_setpoint, current_range, cal_image, cal_writes>>

menu_enter ==
    /\ pc' = "menu"
    /\ selected' = 0
    /\ UNCHANGED <<display, contrast, new_settings, settings,
                   current_setpoint, current_range, cal_image, cal_writes>>

display_config_enter ==
    /\ pc' = "display_config_display"
    /\ selected' = 0
    /\ UNCHANGED <<display, contrast, new_settings, settings,
                   current_setpoint, current_range, cal_image, cal_writes>>

set_contrast_enter ==
    /\ pc' = "set_contrast"
    /\ contrast' = settings.lcd_contrast
    /\ UNCHANGED <<selected, display, new_settings, settings,
                   current_setpoint, current_range, cal_image, cal_writes>>

overtemp_enter ==
    /\ pc' = "overtemp"
    /\ UNCHANGED <<selected, display, contrast, new_settings, settings,
                   current_setpoint, current_range, cal_image, cal_writes>>

splashscreen_enter ==
    /\ pc' = "splashscreen"
    /\ UNCHANGED <<selected, display, contrast, new_settings, settings,
                   current_setpoint, current_range, cal_image, cal_writes>>

\* calibrate() up to the wait of calibrate_offsets
calibrate_enter ==
    /\ pc' = "calibrate_offsets"
    /\ current_setpoint' = set_current(0).current_setpoint
    /\ current_range' = set_current(0).current_range
    /\ new_settings' = settings
    /\ cal_image' = settings
    /\ cal_writes' = 0
    /\ UNCHANGED <<selected, display, contrast, settings>>

\* vTaskUI line 605: invoke state.func(state.arg)
vTaskUI_call ==
    /\ pc = "call"
    /\ state.func # "NULL"
    /\ CASE state.func = "cc_load" -> cc_load_enter
         [] state.func = "menu" -> menu_enter
         [] state.func = "display_config" -> display_config_enter
         [] state.func = "set_contrast" -> set_contrast_enter
         [] state.func = "overtemp" -> overtemp_enter
         [] state.func = "splashscreen" -> splashscreen_enter
         [] state.func = "calibrate" -> calibrate_enter
    /\ UNCHANGED <<state, main_state, new_state, ui_queue, ret_event, ret_mode,
                   display_settings, output_mode, opamp_trim_reg, last_main, sent,
                   null_call>>
    /\ UNCHANGED <<isrVars, fmtVars, tickVars>>

\* a plausible slip: the sentinel is adopted like any other descriptor
vTaskUI_adopt_no_home ==
    /\ pc = "adopt"
    /\ state' = new_state
    /\ main_state' = IF state'.is_main_state # 0 THEN state' ELSE main_state
    /\ last_main' = IF new_state.func # "NULL" /\ new_state.is_main_state # 0
                     THEN new_state ELSE last_main
    /\ pc' = "call"
    /\ ret_event' = NoEvent
    /\ ret_mode' = "OUTPUT_MODE_FEEDBACK"
    /\ UNCHANGED <<new_state, ui_queue, selected, display, contrast,
                   new_settings, settings, display_settings, current_setpoint,
                   current_range, output_mode, opamp_trim_reg, cal_image,
                   cal_writes, sent,
                   null_call>>
    /\ UNCHANGED <<isrVars, fmtVars, tickVars>>

\* a plausible slip: main_state follows every adopted state, main or not
vTaskUI_adopt_always_home ==
    /\ pc = "adopt"
    /\ state' = IF new_state.func = "NULL" THEN main_state ELSE new_state
    /\ main_state' = state'
    /\ last_main' = IF new_state.func # "NULL" /\ new_state.is_main_state # 0
                     THEN new_state ELSE last_main
    /\ pc' = "call"
    /\ ret_event' = NoEvent
    /\ ret_mode' = "OUTPUT_MODE_FEEDBACK"
    /\ UNCHANGED <<new_state, ui_queue, selected, display, contrast,
                   new_settings, settings, display_settings, current_setpoint,
                   current_range, output_mode, opamp_trim_reg, cal_image,
                   cal_writes, sent,
                   null_call>>
    /\ UNCHANGED <<isrVars, fmtVars, tickVars>>

\* vTaskUI lines 606-614: adopt the returned descriptor or go home
vTaskUI_adopt ==
    /\ pc = "adopt"
    /\ state' = IF new_state.func = "NULL" THEN main_state ELSE new_state
    /\ main_state' = IF state'.is_main_state # 0 THEN state' ELSE main_state
    /\ last_main' = IF new_state.func # "NULL" /\ new_state.is_main_state # 0
                     THEN new_state ELSE last_main
    /\ pc' = "call"
    /\ ret_event' = NoEvent
    /\ ret_mode' = "OUTPUT_MODE_FEEDBACK"
    /\ UNCHANGED <<new_state, ui_queue, selected, display, contrast,
                   new_settings, settings, display_settings, current_setpoint,
                   current_range, output_mode, opamp_trim_reg, cal_image,
                   cal_writes, sent,
                   null_call>>
    /\ UNCHANGED <<isrVars, fmtVars, tickVars>>

\* splashscreen(): delay, then the CC-load screen
splashscreen ==
    /\ pc = "splashscreen"
    /\ Return(STATE_CC_LOAD, NoEvent)
    /\ UNCHANGED <<state, main_state, ui_queue, settings, display_settings,
                   current_setpoint, current_range, output_mode, opamp_trim_reg,
                   last_main, cal_image, cal_writes, sent,
                   null_call>>
    /\ UNCHANGED <<isrVars, fmtVars, tickVars>>

\* readout_functions[] (C index i is element i + 1): the formatter and label
\* of each readout kind; the entry of READOUT_NONE holds NULL
readout_functions ==
    <<[func |-> "NULL", label |-> ""],
      [func |-> "print_setpoint", label |-> "SET"],
      [func |-> "print_current_usage", label |-> "ACT"],
      [func |-> "print_voltage", label |-> ""],
      [func |-> "print_power", label |-> ""],
      [func |-> "print_resistance", label |-> ""]>>

\* draw_status(config): the functions it invokes, in order.  The main readout
\* is invoked unless its entry is print_nothing, the two small ones always.
draw_status(config) ==
    LET main == readout_functions[config[1] + 1]
    IN  (IF main.func # "print_nothing" THEN <<main.func>> ELSE <<>>)
            \o <<readout_functions[config[2] + 1].func,
                 readout_functions[config[3] + 1].func>>

\* cc_load line 448: draw_status(&display_settings.cc).  A call through a
\* NULL entry is undefined: the task faults and stops, or it goes on.
draw_status_call ==
    LET invoked == draw_status(display_settings)
        null == \E i \in DOMAIN invoked : invoked[i] = "NULL"
    IN  /\ null_call' = (null_call \/ null)
        /\ pc' \in IF null THEN {"cc_load", "fault"} ELSE {"cc_load"}

\* cc_load(): one iteration of its loop
cc_load ==
    /\ pc = "cc_load"
    /\ \E r \in next_event :
        /\ ui_queue' = r.queue
        /\ CASE r.event.type = "UI_EVENT_BUTTONPRESS" /\ r.event.int_arg = 1 ->
                   /\ Return(STATE_MAIN_MENU, r.event)
                   /\ UNCHANGED <<current_setpoint, current_range, null_call>>
             [] r.event.type = "UI_EVENT_OVERTEMP" ->
                   /\ Return(STATE_OVERTEMP, r.event)
                   /\ UNCHANGED <<current_setpoint, current_range, null_call>>
             [] (r.event.type = "UI_EVENT_BUTTONPRESS" /\ r.event.int_arg # 1)
                  \/ r.event.type = "UI_EVENT_UPDOWN" ->
                   \* a button other than 1 falls through into the UPDOWN case
                   /\ current_setpoint' =
                          adjust_current_setpoint(r.event.int_arg).current_setpoint
                   /\ current_range' =
                          adjust_current_setpoint(r.event.int_arg).current_range
                   /\ draw_status_call
                   /\ UNCHANGED <<new_state, ret_event, ret_mode, selected, display,
                                  contrast, new_settings>>
             [] OTHER ->
                   /\ draw_status_call
                   /\ UNCHANGED <<new_state, ret_event, ret_mode, selected, display,
                                  contrast, new_settings, current_setpoint,
                                  current_range>>
    /\ UNCHANGED <<state, main_state, settings, display_settings, output_mode,
                   opamp_trim_reg, last_main, cal_image, cal_writes, sent>>
    /\ UNCHANGED <<isrVars, fmtVars, tickVars>>

\* menu() run by the trampoline: one iteration of its loop
menu ==
    /\ pc = "menu"
    /\ \E r \in next_event :
        LET b == menu_body(MenuOf(state.arg), selected, r.event)
        IN  /\ ui_queue' = r.queue
            /\ IF b.done
               THEN Return(b.result, r.event)
               ELSE /\ selected' = b.selected
                    /\ UNCHANGED <<pc, new_state, ret_event, ret_mode, display, contrast, new_settings>>
    /\ UNCHANGED <<state, main_state, settings, display_settings,
                   current_setpoint, current_range, output_mode, opamp_trim_reg,
                   last_main, cal_image, cal_writes, sent,
                   null_call>>
    /\ UNCHANGED <<isrVars, fmtVars, tickVars>>

\* EEPROM_Write of one readout_function into config->readouts[slot] (C index)
WriteReadout(readouts, slot, kind) == [readouts EXCEPT ![slot + 1] = kind]

\* a plausible slip: the result of the second menu is not tested for overtemp
display_config_unchecked_readout ==
    /\ pc \in {"display_config_display", "display_config_readout"}
    /\ \E r \in next_event :
        LET m == IF pc = "display_config_display"
                 THEN choose_readout_menu ELSE set_readout_menu
            b == menu_body(m, selected, r.event)
        IN  /\ ui_queue' = r.queue
            /\ IF ~b.done
               THEN /\ selected' = b.selected
                    /\ UNCHANGED <<pc, new_state, ret_event, ret_mode, display, contrast, new_settings,
                                   display_settings>>
               ELSE IF b.result.func = "overtemp" /\ pc = "display_config_display"
               THEN /\ Return(b.result, r.event)
                    /\ UNCHANGED display_settings
               ELSE IF pc = "display_config_display"
               THEN /\ display' = b.result
                    /\ pc' = "display_config_readout"
                    /\ selected' = 0
                    /\ UNCHANGED <<new_state, ret_event, ret_mode, contrast, new_settings,
                                   display_settings>>
               ELSE /\ display_settings' =
                           WriteReadout(display_settings, display.arg.off,
                                        b.result.arg.off)
                    /\ Return(STATE_MAIN, r.event)
    /\ UNCHANGED <<state, main_state, settings, current_setpoint, current_range,
                   output_mode, opamp_trim_reg, last_main, cal_image, cal_writes,
                   sent,
                   null_call>>
    /\ UNCHANGED <<isrVars, fmtVars, tickVars>>

\* display_config(): one iteration of whichever nested menu() is running, and
\* the code that follows its return
display_config ==
    /\ pc \in {"display_config_display", "display_config_readout"}
    /\ \E r \in next_event :
        LET m == IF pc = "display_config_display"
                 THEN choose_readout_menu ELSE set_readout_menu
            b == menu_body(m, selected, r.event)
        IN  /\ ui_queue' = r.queue
            /\ IF ~b.done
               THEN /\ selected' = b.selected
                    /\ UNCHANGED <<pc, new_state, ret_event, ret_mode, display, contrast, new_settings,
                                   display_settings>>
               ELSE IF b.result.func = "overtemp"
               THEN /\ Return(b.result, r.event)
                    /\ UNCHANGED display_settings
               ELSE IF pc = "display_config_display"
               THEN /\ display' = b.result
                    /\ pc' = "display_config_readout"
                    /\ selected' = 0
                    /\ UNCHANGED <<new_state, ret_event, ret_mode, contrast, new_settings,
                                   display_settings>>
               ELSE /\ display_settings' =
                           WriteReadout(display_settings, display.arg.off,
                                        b.result.arg.off)
                    /\ Return(STATE_MAIN, r.event)
    /\ UNCHANGED <<state, main_state, settings, current_setpoint, current_range,
                   output_mode, opamp_trim_reg, last_main, cal_image, cal_writes,
                   sent,
                   null_call>>
    /\ UNCHANGED <<isrVars, fmtVars, tickVars>>

\* a plausible slip: the upper clamp of the working contrast is left out
set_contrast_no_upper_clamp ==
    /\ pc = "set_contrast"
    /\ \E r \in next_event :
        /\ ui_queue' = r.queue
        /\ CASE r.event.type = "UI_EVENT_UPDOWN" ->
                   /\ contrast' =
                          (LET c == contrast + r.event.int_arg
                           IN  IF c < 0 THEN 0 ELSE c)
                   /\ UNCHANGED <<pc, new_state, ret_event, ret_mode, selected, display, new_settings,
                                  settings>>
             [] IsPress1(r.event) ->
                   /\ settings' = [settings EXCEPT !.lcd_contrast = contrast]
                   /\ Return(STATE_MAIN, r.event)
             [] r.event.type = "UI_EVENT_OVERTEMP" ->
                   /\ Return(STATE_OVERTEMP, r.event)
                   /\ UNCHANGED settings
             [] OTHER ->
                   /\ UNCHANGED <<pc, new_state, ret_event, ret_mode, selected, display, contrast,
                                  new_settings, settings>>
    /\ UNCHANGED <<state, main_state, display_settings, current_setpoint,
                   current_range, output_mode, opamp_trim_reg, last_main,
                   cal_image, cal_writes, sent,
                   null_call>>
    /\ UNCHANGED <<isrVars, fmtVars, tickVars>>

\* set_contrast(): one iteration of its loop
set_contrast ==
    /\ pc = "set_contrast"
    /\ \E r \in next_event :
        /\ ui_queue' = r.queue
        /\ CASE r.event.type = "UI_EVENT_UPDOWN" ->
                   /\ contrast' =
                          (LET c == contrast + r.event.int_arg
                           IN  IF c > 63 THEN 63 ELSE IF c < 0 THEN 0 ELSE c)
                   /\ UNCHANGED <<pc, new_state, ret_event, ret_mode, selected, display, new_settings,
                                  settings>>
             [] IsPress1(r.event) ->
                   /\ settings' = [settings EXCEPT !.lcd_contrast = contrast]
                   /\ Return(STATE_MAIN, r.event)
             [] r.event.type = "UI_EVENT_OVERTEMP" ->
                   /\ Return(STATE_OVERTEMP, r.event)
                   /\ UNCHANGED settings
             [] OTHER ->
                   /\ UNCHANGED <<pc, new_state, ret_event, ret_mode, selected, display, contrast,
                                  new_settings, settings>>
    /\ UNCHANGED <<state, main_state, display_settings, current_setpoint,
                   current_range, output_mode, opamp_trim_reg, last_main,
                   cal_image, cal_writes, sent,
                   null_call>>
    /\ UNCHANGED <<isrVars, fmtVars, tickVars>>

\* a plausible slip: the acknowledgement restores the mode and keeps the setpoint
overtemp_keep_setpoint ==
    /\ pc = "overtemp"
    /\ \E r \in next_event :
        /\ ui_queue' = r.queue
        /\ IF output_mode = "OUTPUT_MODE_FEEDBACK"
           THEN /\ Return(STATE_MAIN, r.event)
                /\ UNCHANGED <<current_setpoint, current_range, output_mode>>
           ELSE IF IsPress1(r.event)
           THEN /\ output_mode' = "OUTPUT_MODE_FEEDBACK"
                /\ Return(STATE_MAIN, r.event)
                /\ UNCHANGED <<current_setpoint, current_range>>
           ELSE /\ UNCHANGED <<pc, new_state, ret_event, ret_mode, selected, display, contrast,
                               new_settings, current_setpoint, current_range,
                               output_mode>>
    /\ UNCHANGED <<state, main_state, settings, display_settings, opamp_trim_reg,
                   last_main, cal_image, cal_writes, sent,
                   null_call>>
    /\ UNCHANGED <<isrVars, fmtVars, tickVars>>

\* overtemp(): one iteration of its loop, and the code after the loop
overtemp ==
    /\ pc = "overtemp"
    /\ \E r \in next_event :
        /\ ui_queue' = r.queue
        /\ IF output_mode = "OUTPUT_MODE_FEEDBACK"
           THEN /\ Return(STATE_MAIN, r.event)
                /\ UNCHANGED <<current_setpoint, current_range, output_mode>>
           ELSE IF IsPress1(r.event)
           THEN /\ current_setpoint' = set_current(0).current_setpoint
                /\ current_range' = set_current(0).current_range
                /\ output_mode' = "OUTPUT_MODE_FEEDBACK"
                /\ Return(STATE_MAIN, r.event)
           ELSE /\ UNCHANGED <<pc, new_state, ret_event, ret_mode, selected, display, contrast,
                               new_settings, current_setpoint, current_range,
                               output_mode>>
    /\ UNCHANGED <<state, main_state, settings, display_settings, opamp_trim_reg,
                   last_main, cal_image, cal_writes, sent,
                   null_call>>
    /\ UNCHANGED <<isrVars, fmtVars, tickVars>>

\* a plausible slip: each step's result is written through as soon as it is known
calibrate_offsets_write_through ==
    /\ pc = "calibrate_offsets"
    /\ \E r \in next_event :
        /\ ui_queue' = r.queue
        /\ IF IsPress1(r.event)
           THEN \E rv \in RawVoltages, rc \in RawCurrents :
                /\ new_settings' = [new_settings EXCEPT
                                       !.adc_voltage_offset = rv,
                                       !.adc_current_offset = rc]
                /\ settings' = [settings EXCEPT
                                   !.adc_voltage_offset = rv,
                                   !.adc_current_offset = rc]
                /\ cal_writes' = cal_writes + 1
                /\ pc' = "calibrate_voltage"
           ELSE /\ UNCHANGED <<pc, new_settings, settings, cal_writes>>
    /\ UNCHANGED <<state, main_state, new_state, ret_event, ret_mode, selected, display, contrast,
                   display_settings, current_setpoint, current_range,
                   output_mode, opamp_trim_reg, last_main, cal_image, sent,
                   null_call>>
    /\ UNCHANGED <<isrVars, fmtVars, tickVars>>

\* calibrate_offsets(): one iteration of its wait, and the snapshot after it
calibrate_offsets ==
    /\ pc = "calibrate_offsets"
    /\ \E r \in next_event :
        /\ ui_queue' = r.queue
        /\ IF IsPress1(r.event)
           THEN \E rv \in RawVoltages, rc \in RawCurrents :
                /\ new_settings' = [new_settings EXCEPT
                                       !.adc_voltage_offset = rv,
                                       !.adc_current_offset = rc]
                /\ pc' = "calibrate_voltage"
           ELSE /\ UNCHANGED <<pc, new_settings>>
    /\ UNCHANGED <<state, main_state, new_state, ret_event, ret_mode, selected, display, contrast,
                   settings, display_settings, current_setpoint, current_range,
                   output_mode, opamp_trim_reg, last_main, cal_image, cal_writes,
                   sent,
                   null_call>>
    /\ UNCHANGED <<isrVars, fmtVars, tickVars>>

\* calibrate_voltage(): one iteration of its loop
calibrate_voltage ==
    /\ pc = "calibrate_voltage"
    /\ \E r \in next_event :
        /\ ui_queue' = r.queue
        /\ new_settings' =
              IF r.event.type = "UI_EVENT_UPDOWN"
              THEN [new_settings EXCEPT !.adc_voltage_gain =
                      @ + CDiv(@ * r.event.int_arg, 500)]
              ELSE new_settings
        /\ pc' = IF IsPress1(r.event)
                 THEN "calibrate_opamp_dac_offsets" ELSE pc
    /\ UNCHANGED <<state, main_state, new_state, ret_event, ret_mode, selected, display, contrast,
                   settings, display_settings, current_setpoint, current_range,
                   output_mode, opamp_trim_reg, last_main, cal_image, cal_writes,
                   sent,
                   null_call>>
    /\ UNCHANGED <<isrVars, fmtVars, tickVars>>

\* the sweep of calibrate_opamp_dac_offsets from index i on, with the residual
\* read at each index: the trim register and the scratch trim it ends with
RECURSIVE TrimSweep(_, _, _, _)
TrimSweep(i, residual, reg, trim) ==
    IF i >= 32
    THEN [reg |-> reg, trim |-> trim]
    ELSE IF residual[i] <= 0
         THEN [reg |-> i, trim |-> i - 1]
         ELSE TrimSweep(i + 1, residual, i, trim)

\* calibrate_opamp_dac_offsets(): the whole sweep (no event is awaited)
calibrate_opamp_dac_offsets ==
    /\ pc = "calibrate_opamp_dac_offsets"
    /\ \E cross \in Crossings :
        LET residual == [i \in 0..31 |-> cross - i]
            sw == TrimSweep(0, residual, opamp_trim_reg,
                            new_settings.opamp_offset_trim)
        IN  /\ opamp_trim_reg' = sw.reg
            /\ new_settings' = [new_settings EXCEPT !.opamp_offset_trim = sw.trim]
    /\ current_setpoint' = set_current(0).current_setpoint
    /\ current_range' = set_current(0).current_range
    /\ pc' = "calibrate_current"
    /\ UNCHANGED <<state, main_state, new_state, ui_queue, ret_event, ret_mode, selected,
                   display, contrast, settings, display_settings, output_mode,
                   last_main, cal_image, cal_writes, sent,
                   null_call>>
    /\ UNCHANGED <<isrVars, fmtVars, tickVars>>

\* calibrate_current(): draws its screen and returns (the rest is commented out)
calibrate_current ==
    /\ pc = "calibrate_current"
    /\ pc' = "calibrate"
    /\ UNCHANGED <<state, main_state, new_state, ui_queue, ret_event, ret_mode, selected,
                   display, contrast, new_settings, settings, display_settings,
                   current_setpoint, current_range, output_mode, opamp_trim_reg,
                   last_main, cal_image, cal_writes, sent,
                   null_call>>
    /\ UNCHANGED <<isrVars, fmtVars, tickVars>>

\* calibrate() lines 586-588: the commit of the scratch record, and the return
calibrate ==
    /\ pc = "calibrate"
    /\ settings' = new_settings
    /\ cal_writes' = cal_writes + 1
    /\ Return(STATE_MAIN, NoEvent)
    /\ UNCHANGED <<state, main_state, ui_queue, display_settings,
                   current_setpoint, current_range, output_mode, opamp_trim_reg,
                   last_main, cal_image, sent,
                   null_call>>
    /\ UNCHANGED <<isrVars, fmtVars, tickVars>>

\* a producer offers event e to the queue (xQueueSendToBackFromISR)
Send(e) ==
    /\ sent < MaxEvents
    /\ sent' = sent + 1
    /\ ui_queue' = QueueSend(ui_queue, e)
    /\ UNCHANGED <<uiVars, isrVars, fmtVars, tickVars>>

\* another task changes the output mode through the control facade
set_output_mode(m) ==
    /\ output_mode # m
    /\ output_mode' = m
    /\ UNCHANGED <<pc, state, main_state, new_state, ui_queue, ret_event, ret_mode, selected,
                   display, contrast, new_settings, settings, display_settings,
                   current_setpoint, current_range, opamp_trim_reg, last_main,
                   cal_image, cal_writes, sent,
                   null_call>>
    /\ UNCHANGED <<isrVars, fmtVars, tickVars>>

\* the variables the UI specification leaves at rest
IsrRest ==
    /\ last_levels = 3
    /\ count = 0
    /\ button_when = 0
    /\ now = 0
    /\ quad_hist = <<>>
    /\ button_hist = <<>>
    /\ since_mod = 0
    /\ since_wrapped = TRUE

FmtRest ==
    /\ fmt_num = 0
    /\ fmt_suffix = "A"
    /\ fmt_out = <<>>
    /\ res_voltage = 0
    /\ res_current = 0
    /\ res_out = <<>>
    /\ res_fault = FALSE

\* vTaskUI lines 592-602 with the live state and the persisted records at
\* their defaults; the build may or may not define USE_SPLASHSCREEN
UiInit ==
    /\ pc = "call"
    /\ state \in {STATE_SPLASHSCREEN, STATE_CC_LOAD}
    /\ main_state = STATE_CC_LOAD
    /\ new_state = STATE_MAIN
    /\ ui_queue = <<>>
    /\ ret_event = NoEvent
    /\ ret_mode = "OUTPUT_MODE_FEEDBACK"
    /\ selected = 0
    /\ display = STATE_MAIN
    /\ contrast = 0
    /\ new_settings = NoSettings
    /\ settings = DefaultSettings
    /\ display_settings = DefaultReadouts
    /\ current_setpoint \in InitSetpoints
    /\ current_range = set_current(current_setpoint).current_range
    /\ output_mode = "OUTPUT_MODE_FEEDBACK"
    /\ opamp_trim_reg = DEFAULT_OPAMP_OFFSET_TRIM
    /\ last_main = STATE_CC_LOAD
    /\ cal_image = DefaultSettings
    /\ cal_writes = 0
    /\ null_call = FALSE
    /\ sent = 0

\* next_event has not been called: its static holds 0 at tick 0
TickRest ==
    /\ last_tick = 0
    /\ ne_pc = "run"
    /\ ne_now = 0
    /\ ne_timeout = 0
    /\ ne_waited = 0
    /\ ne_handled = 0
    /\ since_adc = 0
    /\ tick_age = 0
    /\ ne_result = [type |-> "UI_EVENT_NONE", waited |-> 0, queued |-> FALSE,
                    due |-> FALSE]

Init == UiInit /\ IsrRest /\ FmtRest /\ TickRest

\* the UI task as the other specifications hold it: not yet started
UiRest ==
    /\ UiInit
    /\ state = STATE_CC_LOAD
    /\ current_setpoint = 0

\* vTaskUI lines 592-595: the queue is empty and the ISRs hold their statics
InitISR == UiRest /\ IsrRest /\ FmtRest /\ TickRest

Next ==
    \/ vTaskUI_call
    \/ vTaskUI_adopt
    \/ splashscreen
    \/ cc_load
    \/ menu
    \/ display_config
    \/ set_contrast
    \/ overtemp
    \/ calibrate_offsets
    \/ calibrate_voltage
    \/ calibrate_opamp_dac_offsets
    \/ calibrate_current
    \/ calibrate
    \/ \E e \in InputEvents : Send(e)
    \/ \E m \in OutputModes : set_output_mode(m)

Spec == Init /\ [][Next]_vars

-----------------------------------------------------------------------------
(* The input ISRs (ui.c 116-151) *)

\* quadrature_states[]: the level that follows each level going forward
quadrature_states == [l \in 0..3 |-> CASE l = 0 -> 1 [] l = 1 -> 3 [] l = 2 -> 0 [] l = 3 -> 2]

\* edges that make one detent: the threshold of abs(count) and the divisor
EdgesPerDetent == 4

\* configTICK_RATE_HZ / 10
DebounceTicks == TICK_RATE_HZ \div 10

\* now - event.when in the unsigned arithmetic of portTickType
TicksSince(when) == (now - when) % TickModulus

\* the newest n entries of a history
Newest(h, n) == IF Len(h) <= n THEN h ELSE SubSeq(h, Len(h) - n + 1, Len(h))

\* count and last_levels after the comparison with the table (lines 138-144)
quadrature_step(levels) ==
    IF quadrature_states[last_levels] = levels
    THEN [count |-> count + 1, last_levels |-> levels, dir |-> 1]
    ELSE IF quadrature_states[levels] = last_levels
         THEN [count |-> count - 1, last_levels |-> levels, dir |-> -1]
         ELSE [count |-> count, last_levels |-> last_levels, dir |-> 0]

\* a plausible slip: the detent is reported only once count has passed four
quadrature_event_isr_late(levels) ==
    LET st == quadrature_step(levels)
        full == Abs(st.count) > EdgesPerDetent
        ev == ui_event("UI_EVENT_UPDOWN", now, CDiv(st.count, EdgesPerDetent))
    IN  /\ last_levels' = st.last_levels
        /\ count' = IF full THEN CMod(st.count, EdgesPerDetent) ELSE st.count
        /\ ui_queue' = IF full THEN QueueSend(ui_queue, ev) ELSE ui_queue
        /\ quad_hist' = Newest(Append(quad_hist,
                            [dir |-> st.dir, before |-> count,
                             sent |-> IF full THEN ev.int_arg ELSE 0,
                             room |-> Len(ui_queue) < QueueLength]),
                          EdgesPerDetent)
        /\ UNCHANGED <<sent, button_when, now, button_hist, since_mod, since_wrapped>>
        /\ UNCHANGED <<uiVars, fmtVars, tickVars>>

\* a plausible slip: count is not reduced after a detent is reported
quadrature_event_isr_keep_count(levels) ==
    LET st == quadrature_step(levels)
        full == Abs(st.count) >= EdgesPerDetent
        ev == ui_event("UI_EVENT_UPDOWN", now, CDiv(st.count, EdgesPerDetent))
    IN  /\ last_levels' = st.last_levels
        /\ count' = st.count
        /\ ui_queue' = IF full THEN QueueSend(ui_queue, ev) ELSE ui_queue
        /\ quad_hist' = Newest(Append(quad_hist,
                            [dir |-> st.dir, before |-> count,
                             sent |-> IF full THEN ev.int_arg ELSE 0,
                             room |-> Len(ui_queue) < QueueLength]),
                          EdgesPerDetent)
        /\ UNCHANGED <<sent, button_when, now, button_hist, since_mod, since_wrapped>>
        /\ UNCHANGED <<uiVars, fmtVars, tickVars>>

\* quadrature_event_isr with Quadrature_Read() = levels
quadrature_event_isr(levels) ==
    LET st == quadrature_step(levels)
        full == Abs(st.count) >= EdgesPerDetent
        ev == ui_event("UI_EVENT_UPDOWN", now, CDiv(st.count, EdgesPerDetent))
    IN  /\ last_levels' = st.last_levels
        /\ count' = IF full THEN CMod(st.count, EdgesPerDetent) ELSE st.count
        /\ ui_queue' = IF full THEN QueueSend(ui_queue, ev) ELSE ui_queue
        /\ quad_hist' = Newest(Append(quad_hist,
                            [dir |-> st.dir, before |-> count,
                             sent |-> IF full THEN ev.int_arg ELSE 0,
                             room |-> Len(ui_queue) < QueueLength]),
                          EdgesPerDetent)
        /\ UNCHANGED <<sent, button_when, now, button_hist, since_mod, since_wrapped>>
        /\ UNCHANGED <<uiVars, fmtVars, tickVars>>

\* whether at least the debounce window has passed since the last accepted
\* press (since_wrapped holds from boot until the first accepted press)
Quiet == since_wrapped \/ since_mod >= DebounceTicks

\* the history entry of a button edge: gap is the ticks between it and the
\* edge before and age the ticks since it, both counted up to the window
ButtonEdge(accepted) ==
    [age |-> 0,
     gap |-> IF button_hist = <<>> THEN DebounceTicks
             ELSE button_hist[Len(button_hist)].age,
     accepted |-> accepted,
     quiet |-> Quiet,
     room |-> Len(ui_queue) < QueueLength]

\* the history after an edge: the new entry, and before it the previous one
\* with the counters that no longer run set to rest
ButtonHistory(accepted) ==
    IF button_hist = <<>>
    THEN <<ButtonEdge(accepted)>>
    ELSE <<[button_hist[Len(button_hist)] EXCEPT !.age = 0, !.gap = 0],
           ButtonEdge(accepted)>>

\* a plausible slip: the window is closed one tick early (>= for >)
button_press_isr_inclusive(b) ==
    LET pass == TicksSince(button_when) >= DebounceTicks
    IN  /\ button_when' = IF pass THEN now ELSE button_when
        /\ ui_queue' = IF pass
                       THEN QueueSend(ui_queue, ui_event("UI_EVENT_BUTTONPRESS", now, b))
                       ELSE ui_queue
        /\ button_hist' = ButtonHistory(pass)
        /\ since_mod' = IF pass THEN 0 ELSE since_mod
        /\ since_wrapped' = IF pass THEN FALSE ELSE since_wrapped
        /\ UNCHANGED <<sent, last_levels, count, now, quad_hist>>
        /\ UNCHANGED <<uiVars, fmtVars, tickVars>>

\* button_press_isr with QuadButton_Read() = b
button_press_isr(b) ==
    LET pass == TicksSince(button_when) > DebounceTicks
    IN  /\ button_when' = IF pass THEN now ELSE button_when
        /\ ui_queue' = IF pass
                       THEN QueueSend(ui_queue, ui_event("UI_EVENT_BUTTONPRESS", now, b))
                       ELSE ui_queue
        /\ button_hist' = ButtonHistory(pass)
        /\ since_mod' = IF pass THEN 0 ELSE since_mod
        /\ since_wrapped' = IF pass THEN FALSE ELSE since_wrapped
        /\ UNCHANGED <<sent, last_levels, count, now, quad_hist>>
        /\ UNCHANGED <<uiVars, fmtVars, tickVars>>

\* the scheduler's tick interrupt advances the wrapping tick counter
Tick ==
    /\ now' = (now + 1) % TickModulus
    /\ since_mod' = (since_mod + 1) % TickModulus
    /\ since_wrapped' = (since_wrapped \/ since_mod + 1 = TickModulus)
    /\ button_hist' = [i \in DOMAIN button_hist |->
                         IF i = Len(button_hist)
                         THEN [button_hist[i] EXCEPT
                                 !.age = IF @ < DebounceTicks THEN @ + 1 ELSE @]
                         ELSE button_hist[i]]
    /\ UNCHANGED <<ui_queue, sent, last_levels, count, button_when, quad_hist>>
    /\ UNCHANGED <<uiVars, fmtVars, tickVars>>

\* the UI task takes the head of the queue (xQueueReceive in next_event)
Receive ==
    /\ ui_queue # <<>>
    /\ ui_queue' = Tail(ui_queue)
    /\ UNCHANGED <<sent, uiVars, isrVars, fmtVars, tickVars>>

NextQuad ==
    \/ \E levels \in 0..3 : quadrature_event_isr(levels)
    \/ Receive

\* the quadrature ISR alone; the tick counter rests, so every event it
\* enqueues carries the same timestamp
SpecQuad == InitISR /\ [][NextQuad]_vars

NextButton ==
    \/ \E b \in PressedButtons : button_press_isr(b)
    \/ Tick
    \/ Receive

\* the button ISR against the tick counter
SpecButton == InitISR /\ [][NextButton]_vars

-----------------------------------------------------------------------------
(* format_number (ui.c 153-180) *)

\* the decimal digits of n >= 0 as characters, most significant first
RECURSIVE Decimal(_)
Decimal(n) ==
    LET d == <<"0", "1", "2", "3", "4", "5", "6", "7", "8", "9">>[(n % 10) + 1]
    IN  IF n < 10 THEN <<d>> ELSE Append(Decimal(n \div 10), d)

\* sprintf's %0wd for n >= 0: the digits, zero-padded up to w characters
RECURSIVE ZeroPad(_, _)
ZeroPad(digits, w) == IF Len(digits) >= w THEN digits ELSE ZeroPad(<<"0">> \o digits, w)

PrintfD(w, n) == ZeroPad(Decimal(n), w)

\* while(num >= 1000000) { num /= 1000; magnitude++; }
RECURSIVE Scale(_, _)
Scale(num, magnitude) ==
    IF num >= 1000000
    THEN Scale(num \div 1000, magnitude + 1)
    ELSE [num |-> num, magnitude |-> magnitude]

\* a plausible slip: the three-digit format is padded to four characters
format_number_wide(num, suffix) ==
    LET sc == Scale(IF num < 0 THEN 0 ELSE num, 1)
        whole == sc.num \div 1000
        remainder == sc.num % 1000
        digits == IF whole < 10
                  THEN PrintfD(1, whole) \o <<".">> \o PrintfD(2, remainder \div 10)
                  ELSE IF whole < 100
                       THEN PrintfD(2, whole) \o <<".">> \o PrintfD(1, remainder \div 100)
                       ELSE PrintfD(4, whole)
    IN  IF sc.magnitude = 1
        THEN digits \o <<"m", suffix>>
        ELSE digits \o <<suffix, " ">>

\* format_number: the characters left in out
format_number(num, suffix) ==
    LET sc == Scale(IF num < 0 THEN 0 ELSE num, 1)
        whole == sc.num \div 1000
        remainder == sc.num % 1000
        digits == IF whole < 10
                  THEN PrintfD(1, whole) \o <<".">> \o PrintfD(2, remainder \div 10)
                  ELSE IF whole < 100
                       THEN PrintfD(2, whole) \o <<".">> \o PrintfD(1, remainder \div 100)
                       ELSE PrintfD(3, whole)
    IN  IF sc.magnitude = 1
        THEN digits \o <<"m", suffix>>
        ELSE digits \o <<suffix, " ">>

\* values handed to format_number: both sides of every boundary of the
\* layout at each magnitude, up to the largest int
FmtInputs ==
    {-1, 0, 9, 10, 999, 1000, 1234, 9994, 9999, 10000, 12345, 99999,
     100000, 123456, 999999, 1000000, 1234567, 9999999, 10000000, 12345678,
     99999999, 100000000, 123456789, 999999999, 1000000000, 2147483647}

\* unit suffixes of the readouts; "O" stands for the ohm glyph
Suffixes == {"A", "V", "W", "O"}

\* a caller formats num with suffix
format_number_call ==
    /\ \E num \in FmtInputs, suffix \in Suffixes :
        /\ fmt_num' = num
        /\ fmt_suffix' = suffix
        /\ fmt_out' = format_number(num, suffix)
    /\ UNCHANGED <<res_voltage, res_current, res_out, res_fault>>
    /\ UNCHANGED <<ui_queue, sent, uiVars, isrVars, tickVars>>

\* the ohm glyph (FONT_GLYPH_OHM), as one character
OHM == "O"

\* get_voltage() in microvolts and get_current_usage() in microamps
Voltages == {0, 5000000, 12000000}
Currents == {-5, 0, 1, 99999, 100000, 250000, 6000000}

\* what an integer division by zero leaves behind when it does not trap
DivZeroQuotients == {0, 2147483647}

\* print_resistance: the outcomes of one call.  current / 100000 is 0 for a
\* current of 1 .. 99999 and the division by it is undefined: the call traps
\* and writes nothing, or goes on with whatever the division helper returned.
print_resistance(voltage, current) ==
    IF current > 0
    THEN LET divisor == CDiv(current, 100000)
         IN  IF divisor = 0
             THEN {[fault |-> TRUE, out |-> <<>>]}
                      \cup {[fault |-> TRUE, out |-> format_number(q, OHM)] :
                               q \in DivZeroQuotients}
             ELSE {[fault |-> FALSE,
                    out |-> format_number(CDiv(voltage * 10, divisor), OHM)]}
    ELSE {[fault |-> FALSE, out |-> <<"-", "-", "-", "-", OHM>>]}

\* draw_status calls print_resistance with the readings of the moment
print_resistance_call ==
    /\ \E voltage \in Voltages, current \in Currents :
        \E r \in print_resistance(voltage, current) :
            /\ res_voltage' = voltage
            /\ res_current' = current
            /\ res_out' = r.out
            /\ res_fault' = r.fault
    /\ UNCHANGED <<fmt_num, fmt_suffix, fmt_out>>
    /\ UNCHANGED <<ui_queue, sent, uiVars, isrVars, tickVars>>

NextFmt ==
    \/ format_number_call
    \/ print_resistance_call

\* format_number and print_resistance applied to any of the inputs, any
\* number of times
SpecFmt == InitISR /\ [][NextFmt]_vars

-----------------------------------------------------------------------------
(* Properties of format_number, checked under SpecFmt *)

\* format_number has been called with a value >= 0
Formatted == fmt_out # <<>> /\ fmt_num >= 0

\* C8 (as claimed): for every v >= 0 and every suffix the string has length 6.
C8_FormatterEnvelope == Formatted => Len(fmt_out) = 6

\* the scaled whole part of v has three digits
ThreeDigitWhole(v) ==
    \/ v >= 100000 /\ v <= 999999
    \/ v >= 100000000 /\ v <= 999999999

\* C8 (amended): for every v >= 0 and every suffix the string has length 6
\* when the scaled whole part has one or two digits and length 5 when it has
\* three.
C8_FormatterEnvelopeAmended ==
    Formatted => Len(fmt_out) = IF ThreeDigitWhole(fmt_num) THEN 5 ELSE 6

\* C8 witness: a three-digit whole part formatted into five characters
C8_Witness ==
    /\ fmt_num = 123456
    /\ fmt_suffix = "A"
    /\ fmt_out = <<"1", "2", "3", "m", "A">>

-----------------------------------------------------------------------------
(* Properties of the UI task, checked under Spec *)

\* the step receives the head of the queue (only next_event removes events)
Received == ui_queue # <<>> /\ ui_queue' = Tail(ui_queue)

ReceivedType(t) == Received /\ Head(ui_queue).type = t

ReceivedPress1 == Received /\ IsPress1(Head(ui_queue))

\* the positions at which a screen other than overtemp blocks in next_event
MenuScreens == {"menu", "display_config_display", "display_config_readout"}

CalibrationWaits == {"calibrate_offsets", "calibrate_voltage"}

BlockingScreens == {"cc_load", "set_contrast"} \cup MenuScreens \cup CalibrationWaits

\* the positions inside the calibration wizard, up to its commit
WizardPositions ==
    CalibrationWaits \cup {"calibrate_opamp_dac_offsets", "calibrate_current", "calibrate"}

\* C1 (as claimed): on every screen that blocks in next_event, overtemp
\* excepted, the step that receives an OVERTEMP event returns the overtemp
\* descriptor, and the trampoline then makes the overtemp screen its state.
C1_OvertempPreemption ==
    /\ [][(pc \in BlockingScreens /\ ReceivedType("UI_EVENT_OVERTEMP"))
            => (pc' = "adopt" /\ new_state' = STATE_OVERTEMP)]_vars
    /\ [][(pc = "adopt" /\ new_state = STATE_OVERTEMP /\ pc' = "call")
            => state' = STATE_OVERTEMP]_vars

\* C2: when the trampoline adopts a handler's result, a sentinel result makes
\* the next state the last adopted descriptor with is_main_state set
\* (initially CC-load); any other result becomes the next state, and it
\* replaces main_state exactly when its is_main_state flag is set.
C2_HomeSentinel ==
    [][(pc = "adopt" /\ pc' = "call")
        => IF new_state.func = "NULL"
           THEN state' = last_main /\ main_state' = last_main
           ELSE /\ state' = new_state
                /\ main_state' = IF new_state.is_main_state # 0
                                  THEN new_state ELSE main_state]_vars

\* C2 witness: the readout dialog has returned the sentinel and the
\* trampoline is about to run the home screen again
C2_Witness ==
    /\ pc = "call"
    /\ new_state.func = "NULL"
    /\ state = STATE_CC_LOAD
    /\ display_settings # DefaultReadouts

\* C3: the live setpoint stays within 0 .. 6 000 000 uA whatever events the
\* CC-load screen is given.
C3_SetpointClamp == current_setpoint >= 0 /\ current_setpoint <= 6000000

\* C3 witness: the CC-load screen holds a setpoint driven into the upper clamp
C3_Witness == pc = "cc_load" /\ current_setpoint = 6000000 /\ sent > 0

\* the menudata of the menu() now running
RunningMenu ==
    CASE pc = "menu" -> MenuOf(state.arg)
      [] pc = "display_config_display" -> choose_readout_menu
      [] pc = "display_config_readout" -> set_readout_menu

\* C4: while a menu runs its selected index is within 0 .. n-1, and the
\* descriptor the main menu returns on BUTTON_PRESS(1) is the next_state of
\* one of its n real items, never the sentinel entry.
C4_MenuSelectionBounds ==
    /\ pc \in MenuScreens =>
          /\ selected >= 0
          /\ selected <= NumItems(RunningMenu) - 1
          /\ ItemAt(RunningMenu, selected).caption # "NULL"
    /\ (pc = "adopt" /\ state.func = "menu" /\ IsPress1(ret_event)) =>
          /\ new_state # SentinelItem.new_state
          /\ \E i \in 0..(NumItems(main_menu) - 1) :
                new_state = ItemAt(main_menu, i).new_state

\* C4 witness: the main menu returned its last item after a press
C4_Witness ==
    /\ pc = "adopt"
    /\ state.func = "menu"
    /\ IsPress1(ret_event)
    /\ new_state = ItemAt(main_menu, NumItems(main_menu) - 1).new_state

\* C5: at every position of the wizard before its commit the persisted
\* settings equal their image at wizard entry and no persisted write has been
\* made; the commit writes the whole scratch record and is the one write.
C5_CalibrationAtomicity ==
    /\ [](pc \in WizardPositions => (settings = cal_image /\ cal_writes = 0))
    /\ [][(pc \in WizardPositions /\ pc' \notin WizardPositions)
            => (pc = "calibrate" /\ settings' = new_settings /\ cal_writes' = 1)]_vars

\* C5 witness: step 1 has put its snapshot into the scratch record, the
\* persisted record still holds the old offset, and the commit is next
C5_Witness ==
    /\ pc = "calibrate"
    /\ new_settings.adc_voltage_offset = 7
    /\ settings.adc_voltage_offset = 0
    /\ new_settings # settings

Clamp(x, lo, hi) == IF x < lo THEN lo ELSE IF x > hi THEN hi ELSE x

\* C9: an UP_DOWN(d) received on the CC-load screen sets the setpoint to
\* clamp(s + d*step, 0, 6 000 000), step being 5000 in range 0 and 20 000 in
\* range 1, and leaves the range 0 exactly when the new setpoint <= 250 000.
C9_EncoderAdjustment ==
    [][(pc = "cc_load" /\ ReceivedType("UI_EVENT_UPDOWN"))
        => LET d == Head(ui_queue).int_arg
               step == IF current_range = 0 THEN 5000 ELSE 20000
           IN  /\ current_setpoint' = Clamp(current_setpoint + d * step, 0, 6000000)
               /\ (current_range' = 0) <=> (current_setpoint' <= 250000)]_vars

\* C9 witness: 248 000 with UP_DOWN(+1) has become 253 000 in range 1
C9_Witness == pc = "cc_load" /\ current_setpoint = 253000 /\ current_range = 1

\* C10 (as claimed): overtemp returns the sentinel only in FEEDBACK mode or on
\* BUTTON_PRESS(1), and whenever it returns on receiving BUTTON_PRESS(1) the
\* setpoint is 0 and the mode FEEDBACK, whatever the mode was.
C10_OvertempRecovery ==
    [][(pc = "overtemp" /\ pc' = "adopt")
        => /\ new_state' = STATE_MAIN
           /\ output_mode = "OUTPUT_MODE_FEEDBACK" \/ ReceivedPress1
           /\ ReceivedPress1 =>
                 (current_setpoint' = 0 /\ output_mode' = "OUTPUT_MODE_FEEDBACK")]_vars

\* C10 (amended): overtemp returns the sentinel only in FEEDBACK mode or on
\* BUTTON_PRESS(1); when it receives BUTTON_PRESS(1) in another mode it returns
\* with setpoint 0, range 0 and mode FEEDBACK; when the mode is FEEDBACK it
\* returns after any call of next_event and leaves setpoint and mode alone.
C10_OvertempRecoveryAmended ==
    [][(pc = "overtemp" /\ pc' = "adopt")
        => /\ new_state' = STATE_MAIN
           /\ output_mode = "OUTPUT_MODE_FEEDBACK" \/ ReceivedPress1
           /\ (ReceivedPress1 /\ output_mode # "OUTPUT_MODE_FEEDBACK") =>
                 /\ current_setpoint' = 0
                 /\ current_range' = 0
                 /\ output_mode' = "OUTPUT_MODE_FEEDBACK"
           /\ output_mode = "OUTPUT_MODE_FEEDBACK" =>
                 UNCHANGED <<current_setpoint, current_range, output_mode>>]_vars

\* C10 witness: overtemp has returned on a press received while the output
\* was off, with the setpoint zeroed and the mode restored
C10_Witness ==
    /\ pc = "adopt"
    /\ state.func = "overtemp"
    /\ IsPress1(ret_event)
    /\ ret_mode = "OUTPUT_MODE_OFF"
    /\ new_state = STATE_MAIN
    /\ current_setpoint = 0
    /\ output_mode = "OUTPUT_MODE_FEEDBACK"

-----------------------------------------------------------------------------
(* Properties of the quadrature ISR, checked under SpecQuad *)

\* the last four invocations were forward edges, each with room in the queue
FourForward ==
    /\ Len(quad_hist) = 4
    /\ \A i \in 1..4 : quad_hist[i].dir = 1 /\ quad_hist[i].room

\* the invocations of the history that handed an event to the queue
Reported == {i \in 1..Len(quad_hist) : quad_hist[i].sent # 0}

\* C6 (as claimed): from any reachable state, four consecutive forward edges
\* with room in the queue enqueue exactly one UP_DOWN, with int_arg +1.
C6_QuadratureDetent ==
    FourForward =>
        /\ Cardinality(Reported) = 1
        /\ \A i \in Reported : quad_hist[i].sent = 1

\* C6 (amended): four consecutive forward edges with room in the queue
\* enqueue exactly one UP_DOWN(+1) when count was 0..3 before the first of
\* them, and none when count was negative.
C6_QuadratureDetentAmended ==
    FourForward =>
        IF quad_hist[1].before >= 0
        THEN /\ Cardinality(Reported) = 1
             /\ \A i \in Reported : quad_hist[i].sent = 1
        ELSE Reported = {}

\* C6 witness: the cycle 1->3->2->0->1 has been fed with count at 3 (the
\* count level 1 is reached with going forward); its first edge completed the
\* detent and enqueued the one UP_DOWN(+1)
C6_Witness ==
    /\ FourForward
    /\ quad_hist[1].before = 3
    /\ quad_hist[1].sent = 1
    /\ last_levels = 1
    /\ count = 3
    /\ ui_queue = <<ui_event("UI_EVENT_UPDOWN", 0, 1)>>

-----------------------------------------------------------------------------
(* Properties of the button ISR, checked under SpecButton *)

\* a step of the button ISR taken with room in the queue
ButtonEdgeWithRoom ==
    /\ \E b \in PressedButtons : button_press_isr(b)
    /\ Len(ui_queue) < QueueLength

\* the two edges of the history were less than the window apart, with room
TwoCloseEdges ==
    /\ Len(button_hist) = 2
    /\ button_hist[2].gap < DebounceTicks
    /\ button_hist[1].room
    /\ button_hist[2].room

\* C7 (as claimed): an edge is enqueued iff at least tick_rate/10 ticks have
\* elapsed since the last accepted press; of two edges less than tick_rate/10
\* apart, at any tick count, the first not preceded by an accepted press
\* within tick_rate/10, the first is enqueued and the second rejected.
C7_Debounce ==
    /\ [][ButtonEdgeWithRoom => ((ui_queue' # ui_queue) <=> Quiet)]_vars
    /\ []((TwoCloseEdges /\ button_hist[1].quiet)
            => (button_hist[1].accepted /\ ~button_hist[2].accepted))

\* C7 (amended): an edge is enqueued iff strictly more than tick_rate/10
\* ticks have elapsed, on the wrapping tick counter, since the last accepted
\* press, or since tick 0 while none was accepted; of two edges less than
\* tick_rate/10 apart the second is rejected whenever the first was accepted
\* (the first being accepted exactly under that condition), so at most one
\* BUTTON_PRESS is enqueued.
C7_DebounceAmended ==
    /\ [][ButtonEdgeWithRoom
            => ((ui_queue' # ui_queue) <=> (since_mod > DebounceTicks))]_vars
    /\ [](TwoCloseEdges
            => (button_hist[1].accepted => ~button_hist[2].accepted))

\* C7 witness: two edges less than the window apart, the first enqueued and
\* the second rejected
C7_Witness ==
    /\ TwoCloseEdges
    /\ button_hist[2].gap > 0
    /\ button_hist[1].accepted
    /\ ~button_hist[2].accepted
    /\ Len(ui_queue) = 1
    /\ ui_queue[1].type = "UI_EVENT_BUTTONPRESS"

-----------------------------------------------------------------------------
(* next_event (ui.c 190-199) against the tick counter *)

\* the longest a screen spends between two calls of next_event, in ticks
MaxHandling == 2

\* the ticks from boot a run covers; the scheduler's counter is monotonic
\* over them, so no sum or difference of portTickType values wraps
MaxTicks == 13

\* configTICK_RATE_HZ / 10, the period of the synthesized ADC_READING
TickPeriod == TICK_RATE_HZ \div 10

\* a tick count kept as history, counted up to limit
CountTo(n, limit) == IF n < limit THEN n + 1 ELSE limit

\* next_event returns: the history of the call that ends
next_event_return(type, queued, due) ==
    /\ ne_pc' = "run"
    /\ ne_timeout' = 0
    /\ ne_handled' = 0
    /\ ne_waited' = 0
    /\ ne_result' = [type |-> type, waited |-> ne_waited, queued |-> queued,
                     due |-> due]

\* lines 194-197: event->type = UI_EVENT_ADC_READING; last_tick = now, with
\* the now that the call read when it was entered
next_event_synthesize(entry, queued, due) ==
    /\ last_tick' = entry
    /\ tick_age' = ne_waited
    /\ since_adc' = 0
    /\ ui_queue' = ui_queue
    /\ next_event_return("UI_EVENT_ADC_READING", queued, due)

\* xQueueReceive succeeded: the head of the queue is the event; last_tick stays
next_event_receive(queued, due) ==
    /\ ui_queue' = Tail(ui_queue)
    /\ UNCHANGED <<last_tick, tick_age, since_adc>>
    /\ next_event_return(Head(ui_queue).type, queued, due)

\* a plausible slip: the overdue test is left out, so the queue is always read
next_event_enter_no_overdue ==
    /\ ne_pc = "run"
    /\ LET elapsed == now - last_tick
           timeout == IF elapsed < TickPeriod THEN TickPeriod - elapsed ELSE 0
           queued == ui_queue # <<>>
           due == tick_age > TickPeriod
       IN  IF queued
           THEN next_event_receive(queued, due) /\ ne_now' = now
           ELSE IF timeout = 0
           THEN next_event_synthesize(now, queued, due) /\ ne_now' = now
           ELSE /\ ne_pc' = "wait"
                /\ ne_now' = now
                /\ ne_timeout' = timeout
                /\ ne_waited' = 0
                /\ UNCHANGED <<ui_queue, last_tick, tick_age, since_adc,
                               ne_handled, ne_result>>
    /\ UNCHANGED <<sent, uiVars, isrVars, fmtVars>>

\* lines 192-193: the screen calls next_event.  An overdue tick
\* (now > last_tick + period) is synthesized without reading the queue; else
\* xQueueReceive is called with the timeout period - (now - last_tick): a
\* queued event is received at once, a zero timeout on an empty queue fails
\* at once, and otherwise the task blocks.
next_event_enter ==
    /\ ne_pc = "run"
    /\ LET overdue == now > last_tick + TickPeriod
           timeout == TickPeriod - (now - last_tick)
           queued == ui_queue # <<>>
           due == tick_age > TickPeriod
       IN  IF overdue
           THEN next_event_synthesize(now, queued, due) /\ ne_now' = now
           ELSE IF queued
           THEN next_event_receive(queued, due) /\ ne_now' = now
           ELSE IF timeout = 0
           THEN next_event_synthesize(now, queued, due) /\ ne_now' = now
           ELSE /\ ne_pc' = "wait"
                /\ ne_now' = now
                /\ ne_timeout' = timeout
                /\ ne_waited' = 0
                /\ UNCHANGED <<ui_queue, last_tick, tick_age, since_adc,
                               ne_handled, ne_result>>
    /\ UNCHANGED <<sent, uiVars, isrVars, fmtVars>>

\* xQueueReceive returns on the event that arrived within the timeout
next_event_wake ==
    /\ ne_pc = "wait"
    /\ ui_queue # <<>>
    /\ next_event_receive(FALSE, tick_age - ne_waited > TickPeriod)
    /\ UNCHANGED <<ne_now, sent, uiVars, isrVars, fmtVars>>

\* xQueueReceive times out on the empty queue: the ADC_READING is synthesized
next_event_timeout ==
    /\ ne_pc = "wait"
    /\ ui_queue = <<>>
    /\ ne_timeout = 0
    /\ next_event_synthesize(ne_now, FALSE, tick_age - ne_waited > TickPeriod)
    /\ UNCHANGED <<ne_now, sent, uiVars, isrVars, fmtVars>>

\* an ISR posts an input event (xQueueSendToBackFromISR)
Post ==
    /\ ui_queue' = QueueSend(ui_queue, ui_event("UI_EVENT_BUTTONPRESS", now, 1))
    /\ UNCHANGED <<sent, uiVars, isrVars, fmtVars, tickVars>>

\* the tick interrupt while the screen runs or waits, over the first
\* MaxTicks ticks: a blocked task whose event has arrived or whose timeout
\* has expired is resumed before the next tick, and a running screen calls
\* next_event within MaxHandling ticks
TickUI ==
    /\ ne_pc = "wait" => ne_timeout > 0 /\ ui_queue = <<>>
    /\ ne_pc = "run" => ne_handled < MaxHandling
    /\ now < MaxTicks
    /\ now' = now + 1
    /\ ne_timeout' = IF ne_pc = "wait" THEN ne_timeout - 1 ELSE ne_timeout
    /\ ne_waited' = IF ne_pc = "wait"
                    THEN CountTo(ne_waited, TickPeriod + 1) ELSE ne_waited
    /\ ne_handled' = IF ne_pc = "run" THEN ne_handled + 1 ELSE ne_handled
    /\ since_adc' = CountTo(since_adc, TickPeriod + MaxHandling + 1)
    /\ tick_age' = CountTo(tick_age, 2 * TickPeriod + 2)
    /\ UNCHANGED <<ui_queue, last_tick, ne_pc, ne_now, ne_result, sent,
                   last_levels, count, button_when, quad_hist, button_hist,
                   since_mod, since_wrapped>>
    /\ UNCHANGED <<uiVars, fmtVars>>

NextTick ==
    \/ next_event_enter
    \/ next_event_wake
    \/ next_event_timeout
    \/ Post
    \/ TickUI

\* a screen that calls next_event in a loop, the ISRs and the monotonic tick
\* counter of the scheduler
SpecTick == InitISR /\ [][NextTick]_vars

-----------------------------------------------------------------------------
(* Properties of next_event, checked under SpecTick *)

-----------------------------------------------------------------------------
(* Properties of the editors and dialogs, checked under Spec *)

\* C12: in the contrast editor the working contrast stays in 0 .. 63, an
\* UP_DOWN moving it to the clamped sum; the persisted lcd_contrast is written
\* only by the step that receives BUTTON_PRESS(1), with the working value, and
\* that step returns the home sentinel; the step that receives OVERTEMP
\* returns the overtemp descriptor and leaves the persisted record alone.
C12_ContrastEditor ==
    /\ [](pc = "set_contrast" => contrast >= 0 /\ contrast <= 63)
    /\ [][(pc = "set_contrast" /\ ReceivedType("UI_EVENT_UPDOWN"))
            => /\ contrast' = Clamp(contrast + Head(ui_queue).int_arg, 0, 63)
               /\ pc' = pc]_vars
    /\ [][pc = "set_contrast"
            => IF ReceivedPress1
               THEN /\ settings' = [settings EXCEPT !.lcd_contrast = contrast]
                    /\ pc' = "adopt" /\ new_state' = STATE_MAIN
               ELSE settings' = settings]_vars
    /\ [][(pc = "set_contrast" /\ ReceivedType("UI_EVENT_OVERTEMP"))
            => pc' = "adopt" /\ new_state' = STATE_OVERTEMP]_vars

\* C12 witness: the editor was driven into the upper clamp and the press has
\* persisted 63 and returned the sentinel
C12_Witness ==
    /\ pc = "adopt"
    /\ state = STATE_SET_CONTRAST
    /\ new_state = STATE_MAIN
    /\ IsPress1(ret_event)
    /\ settings.lcd_contrast = 63

\* the readout kind each item of the second menu stands for, by index
ChosenKind(i) == <<1, 2, 3, 4, 5, 0>>[i + 1]

\* the positions of the two nested menus of the readout dialog
ReadoutDialog == {"display_config_display", "display_config_readout"}

\* C13: in the readout dialog BUTTON_PRESS(1) in the first menu fixes the slot
\* (its selected index, 0 .. 2) and persists nothing; BUTTON_PRESS(1) in the
\* second menu overwrites exactly readouts[slot] with the kind of the selected
\* item, leaves the other slots and the settings alone and returns the home
\* sentinel; OVERTEMP in either menu returns the overtemp descriptor; and no
\* other step of the dialog persists anything.
C13_ReadoutConfig ==
    /\ [][(pc = "display_config_display" /\ ReceivedPress1)
            => /\ pc' = "display_config_readout"
               /\ display'.arg.off = selected /\ selected \in 0..2]_vars
    /\ [][(pc = "display_config_readout" /\ ReceivedPress1)
            => /\ display_settings' =
                      [i \in 1..3 |-> IF i = display.arg.off + 1
                                      THEN ChosenKind(selected)
                                      ELSE display_settings[i]]
               /\ pc' = "adopt" /\ new_state' = STATE_MAIN]_vars
    /\ [][(pc \in ReadoutDialog /\ ReceivedType("UI_EVENT_OVERTEMP"))
            => pc' = "adopt" /\ new_state' = STATE_OVERTEMP]_vars
    /\ [][(pc \in ReadoutDialog /\ ~(pc = "display_config_readout" /\ ReceivedPress1))
            => display_settings' = display_settings]_vars
    /\ [][(pc \in ReadoutDialog) => settings' = settings]_vars

\* C13 witness: the dialog has stored the kind None in slot 0 and returned the
\* sentinel
C13_Witness ==
    /\ pc = "adopt"
    /\ state = STATE_CONFIGURE_CC_DISPLAY
    /\ new_state = STATE_MAIN
    /\ display_settings = <<READOUT_NONE, READOUT_CURRENT_USAGE, READOUT_VOLTAGE>>

\* C14 (as claimed): the wizard passes its steps in the order offsets, voltage
\* gain, opamp/DAC offsets, current gain, commit; steps 1, 2 and 4 are left
\* only by the step that receives BUTTON_PRESS(1); and the persisted record is
\* written only at the commit.
C14_CalibrationStepOrder ==
    /\ [][(pc = "calibrate_offsets" /\ pc' # pc)
            => ReceivedPress1 /\ pc' = "calibrate_voltage"]_vars
    /\ [][(pc = "calibrate_voltage" /\ pc' # pc)
            => ReceivedPress1 /\ pc' = "calibrate_opamp_dac_offsets"]_vars
    /\ [][(pc = "calibrate_opamp_dac_offsets" /\ pc' # pc)
            => pc' = "calibrate_current"]_vars
    /\ [][(pc = "calibrate_current" /\ pc' # pc)
            => ReceivedPress1 /\ pc' = "calibrate"]_vars
    /\ [][(pc \in WizardPositions /\ settings' # settings) => pc = "calibrate"]_vars

\* C16 (as claimed): the step that completes the sweep leaves in the scratch
\* record a trim in 0 .. 31, one less than the index the sweep stopped at or,
\* when the sweep ran through index 31, the trim the scratch record held; the
\* setpoint is 0 after it; and the trim the commit persists is in 0 .. 31.
C16_OpampTrim ==
    /\ [][(pc = "calibrate_opamp_dac_offsets" /\ pc' = "calibrate_current")
            => /\ new_settings'.opamp_offset_trim \in 0..31
               /\ \/ new_settings'.opamp_offset_trim = opamp_trim_reg' - 1
                  \/ /\ opamp_trim_reg' = 31
                     /\ new_settings'.opamp_offset_trim =
                            new_settings.opamp_offset_trim
               /\ current_setpoint' = 0]_vars
    /\ [][(pc = "calibrate" /\ pc' = "adopt")
            => settings'.opamp_offset_trim \in 0..31]_vars

\* C18 (as claimed): on the CC-load screen a step that receives a BUTTON_PRESS
\* of a button other than 1, or that gets an ADC_READING, leaves the setpoint
\* and the range alone and stays on the screen; only UP_DOWN changes them.
C18_CCLoadFrame ==
    /\ [][(pc = "cc_load" /\ ReceivedType("UI_EVENT_BUTTONPRESS")
             /\ Head(ui_queue).int_arg # 1)
            => /\ current_setpoint' = current_setpoint
               /\ current_range' = current_range
               /\ pc' = "cc_load"]_vars
    /\ [][(pc = "cc_load" /\ ~Received)
            => /\ current_setpoint' = current_setpoint
               /\ current_range' = current_range
               /\ pc' = "cc_load"]_vars
    /\ [][(pc = "cc_load" /\ current_setpoint' # current_setpoint)
            => ReceivedType("UI_EVENT_UPDOWN")]_vars

\* C19: whenever the trampoline is about to invoke the handler of state, that
\* handler is a screen and not the sentinel's NULL; and main_state always
\* holds a descriptor with a handler and with is_main_state set.
C19_TrampolineWellFormed ==
    /\ pc = "call" => state.func # "NULL"
    /\ main_state.func # "NULL"
    /\ main_state.is_main_state # 0

\* C19 witness: the wizard has returned the sentinel and the trampoline is
\* about to invoke the home screen
C19_Witness ==
    /\ pc = "call"
    /\ new_state = STATE_MAIN
    /\ cal_writes = 1
    /\ state = STATE_CC_LOAD
    /\ main_state = STATE_CC_LOAD

-----------------------------------------------------------------------------
(* Further properties of format_number, checked under SpecFmt *)

\* the characters of a string, as a set
Chars(str) == {str[i] : i \in DOMAIN str}

\* C15 (as claimed): the magnitude of a value >= 0 is 1, 2 or 3; the string
\* carries "m" before the suffix at magnitude 1, no prefix at magnitude 2 and
\* "k" at magnitude 3; and no input 1000 times the formatted one gives the
\* same string.
C15_FormatterPrefix ==
    Formatted =>
        LET m == Scale(fmt_num, 1).magnitude
        IN  /\ m \in {1, 2, 3}
            /\ m = 1 => fmt_out[Len(fmt_out) - 1] = "m"
            /\ m = 2 => Chars(fmt_out) \cap {"m", "k"} = {}
            /\ m = 3 => "k" \in Chars(fmt_out)
            /\ \A w \in FmtInputs :
                   (fmt_num > 0 /\ w % 1000 = 0 /\ w \div 1000 = fmt_num)
                       => format_number(w, fmt_suffix) # fmt_out

-----------------------------------------------------------------------------
(* Further properties of the quadrature ISR, checked under SpecQuad *)

\* a reading that repeats last or differs from it in both bits
IsGlitch(last, levels) == levels = last \/ levels = 3 - last

\* C20: after every invocation of the quadrature ISR count is within -3 .. 3;
\* every UP_DOWN it has enqueued carries +1 or -1; and an invocation whose
\* reading is no neighbour of last_levels changes neither count nor
\* last_levels and enqueues nothing.
C20_QuadratureAccumulator ==
    /\ [](count \in -3..3)
    /\ [](\A i \in DOMAIN ui_queue :
              ui_queue[i].type = "UI_EVENT_UPDOWN" /\ ui_queue[i].int_arg \in {-1, 1})
    /\ [][\A levels \in 0..3 :
              (quadrature_event_isr(levels) /\ IsGlitch(last_levels, levels))
                  => /\ count' = count
                     /\ last_levels' = last_levels
                     /\ ui_queue' = ui_queue]_vars

\* C20 witness: a backward detent has been reported, count has gone on to -3
\* and the last invocation was a glitch
C20_Witness ==
    /\ count = -3
    /\ ui_queue # <<>>
    /\ ui_queue[1].int_arg = -1
    /\ quad_hist # <<>>
    /\ quad_hist[Len(quad_hist)].dir = 0
    /\ quad_hist[Len(quad_hist)].before = -3

-----------------------------------------------------------------------------
(* Properties of print_resistance, checked under SpecFmt *)

\* print_resistance has been called
ResistancePrinted == res_out # <<>> \/ res_fault

\* C17 (as claimed): for a current > 0 the divisor current / 100000 is not
\* zero and the readout is the formatted voltage * 10 / (current / 100000);
\* for a current <= 0 it is "----" and the ohm glyph; no call divides by zero.
C17_ResistanceReadout ==
    ResistancePrinted =>
        /\ ~res_fault
        /\ IF res_current > 0
           THEN /\ CDiv(res_current, 100000) # 0
                /\ res_out = format_number(
                       CDiv(res_voltage * 10, CDiv(res_current, 100000)), OHM)
           ELSE res_out = <<"-", "-", "-", "-", OHM>>

-----------------------------------------------------------------------------
(* Properties of the redraw of the CC-load screen, checked under Spec *)

\* C21 (as claimed): whatever kinds the readout dialog has stored in the
\* three slots, no redraw of the CC-load screen invokes a NULL entry of
\* readout_functions.
C21_ReadoutDispatch == ~null_call
====
